---- MODULE Spec2Model ----
(***************************************************************************)
(* Model of packages/@tailwindcss-browser/src/index.ts: the class         *)
(* registry, the promise-chain build queue, the compiler handle, the      *)
(* stylesheet and the tw() entry point.                                    *)
(*                                                                         *)
(* A JavaScript string is a sequence of one-character strings; a class    *)
(* name is such a sequence.  Synchronous stretches of code are one step;  *)
(* every await and every promise reaction is a step of its own.           *)
(***************************************************************************)
EXTENDS Integers, Sequences, FiniteSets, TLC

(* ---------------------------------------------------------------------- *)
(* Bounds                                                                  *)
(* ---------------------------------------------------------------------- *)
MaxCalls == 2
MaxInits == 1

(* ---------------------------------------------------------------------- *)
(* Values                                                                  *)
(* ---------------------------------------------------------------------- *)
Undefined == "undefined"
DefaultCss == "@import \"tailwindcss\";"
CustomCss == "custom"

NoSheet == [exists |-> FALSE, text |-> [engine |-> Undefined, classes |-> << >>]]
NewSheet == [exists |-> TRUE, text |-> [engine |-> Undefined, classes |-> << >>]]

Falsy == [kind |-> "falsy", str |-> << >>, entries |-> << >>]
Str(s) == [kind |-> "string", str |-> s, entries |-> << >>]
Obj(e) == [kind |-> "object", str |-> << >>, entries |-> e]
Entry(k, c) == [key |-> k, cond |-> c]

InputLists ==
  { << >>,
    << Str(<<"a", " ", "b">>) >>,
    << Falsy, Str(<<" ", "c", " ">>) >>,
    << Str(<<"a", " ", "b">>), Obj(<< Entry(<<"c">>, TRUE), Entry(<<"d">>, FALSE) >>) >> }

CssArgs == {Undefined, CustomCss}

(* ---------------------------------------------------------------------- *)
(* Sequence helpers                                                        *)
(* ---------------------------------------------------------------------- *)
Range(s) == {s[k] : k \in 1..Len(s)}

RECURSIVE FilterNotIn(_, _)
FilterNotIn(s, set) ==
  IF s = << >> THEN << >>
  ELSE IF Head(s) \in set THEN FilterNotIn(Tail(s), set)
       ELSE <<Head(s)>> \o FilterNotIn(Tail(s), set)

RECURSIVE SetAddAll(_, _)
SetAddAll(reg, new) ==
  IF new = << >> THEN reg
  ELSE SetAddAll(IF Head(new) \in Range(reg) THEN reg ELSE Append(reg, Head(new)),
                 Tail(new))

(* ---------------------------------------------------------------------- *)
(* parseClassString and tw's loop                                          *)
(* ---------------------------------------------------------------------- *)
IsSpace(c) == c \in {" ", "\t"}

RECURSIVE TrimStart(_)
TrimStart(s) ==
  IF s # << >> /\ IsSpace(Head(s)) THEN TrimStart(Tail(s)) ELSE s

RECURSIVE TrimEnd(_)
TrimEnd(s) ==
  IF s # << >> /\ IsSpace(s[Len(s)]) THEN TrimEnd(SubSeq(s, 1, Len(s) - 1)) ELSE s

Trim(s) == TrimEnd(TrimStart(s))

RECURSIVE SplitWs(_, _, _, _)
SplitWs(s, cur, acc, inRun) ==
  IF s = << >> THEN Append(acc, cur)
  ELSE IF IsSpace(Head(s))
       THEN IF inRun THEN SplitWs(Tail(s), cur, acc, TRUE)
            ELSE SplitWs(Tail(s), << >>, Append(acc, cur), TRUE)
       ELSE SplitWs(Tail(s), Append(cur, Head(s)), acc, FALSE)

RECURSIVE FilterBoolean(_)
FilterBoolean(toks) ==
  IF toks = << >> THEN << >>
  ELSE IF Head(toks) = << >> THEN FilterBoolean(Tail(toks))
       ELSE <<Head(toks)>> \o FilterBoolean(Tail(toks))

parseClassString(input) == FilterBoolean(SplitWs(Trim(input), << >>, << >>, FALSE))

RECURSIVE Join(_)
Join(toks) ==
  IF toks = << >> THEN << >>
  ELSE IF Len(toks) = 1 THEN Head(toks)
       ELSE Head(toks) \o <<" ">> \o Join(Tail(toks))

RECURSIVE EntriesAll(_)
EntriesAll(es) ==
  IF es = << >> THEN << >>
  ELSE parseClassString(Head(es).key) \o EntriesAll(Tail(es))

EntriesActiveAll(es) == EntriesAll(es)

RECURSIVE EntriesActive(_)
EntriesActive(es) ==
  IF es = << >> THEN << >>
  ELSE (IF Head(es).cond THEN parseClassString(Head(es).key) ELSE << >>)
       \o EntriesActive(Tail(es))

RECURSIVE allClassesToProcess(_)
allClassesToProcess(inputs) ==
  IF inputs = << >> THEN << >>
  ELSE (CASE Head(inputs).kind = "string" -> parseClassString(Head(inputs).str)
          [] Head(inputs).kind = "object" -> EntriesAll(Head(inputs).entries)
          [] OTHER -> << >>)
       \o allClassesToProcess(Tail(inputs))

RECURSIVE resultClasses(_)
resultClasses(inputs) ==
  IF inputs = << >> THEN << >>
  ELSE (CASE Head(inputs).kind = "string" -> parseClassString(Head(inputs).str)
          [] Head(inputs).kind = "object" -> EntriesActive(Head(inputs).entries)
          [] OTHER -> << >>)
       \o resultClasses(Tail(inputs))

(* ---------------------------------------------------------------------- *)
(* State                                                                   *)
(* ---------------------------------------------------------------------- *)
VARIABLES
  compiler,          \* the css source of the installed engine, or Undefined
  processedClasses,  \* the registry, in insertion order, without duplicates
  sheet,             \* the style element
  buildQueue,        \* index of the promise buildQueue holds; 0 is Promise.resolve()
  tasks,             \* one record per tw() call
  inits,             \* explicit initializeCompiler() calls
  builds,            \* log of compiler.build invocations
  sheetsCreated,     \* number of document.createElement('style') calls
  loads              \* log of loadStylesheet and loadModule calls with their outcomes

vars == <<compiler, processedClasses, sheet, buildQueue, tasks, inits, builds, sheetsCreated,
          loads>>

Outcomes == {"ok", "skipped", "failedInit", "failedBuild", "failedWrite"}
Executing == {"compile", "resume"}

Init ==
  /\ compiler = Undefined
  /\ processedClasses = << >>
  /\ sheet = NoSheet
  /\ buildQueue = 0
  /\ tasks = << >>
  /\ inits = << >>
  /\ builds = << >>
  /\ sheetsCreated = 0
  /\ loads = << >>

(* ---------------------------------------------------------------------- *)
(* The code's decisions, one operator each                                 *)
(* ---------------------------------------------------------------------- *)

\* let buildQueue = Promise.resolve()
InitialPromiseNever == "pending"
InitialPromise == "fulfilled"

\* const css = customCss ?? `@import "tailwindcss";`
Css(customCss) == IF customCss = Undefined THEN DefaultCss ELSE customCss

\* compiler = await tailwindcss.compile(...): a rejection throws before the assignment
CompilerAfterRejectCleared(c) == Undefined
CompilerAfterReject(c) == c

\* if (!sheet) { sheet = document.createElement('style'); ... }
EnsureSheetAlways(sh) == NewSheet
EnsureSheetNever(sh) == sh
EnsureSheet(sh) == IF sh.exists THEN sh ELSE NewSheet

\* if (!compiler) await initializeCompiler()
NeedsInitNever(c) == FALSE
NeedsInitAlways(c) == TRUE
NeedsInit(c) == c = Undefined

\* classNames.filter((cls) => !processedClasses.has(cls))
NewClassesUnfiltered(classNames, reg) == classNames
NewClasses(classNames, reg) == FilterNotIn(classNames, Range(reg))

\* for (const cls of newClasses) processedClasses.add(cls)
AddAllReplace(reg, new) == SetAddAll(<< >>, new)
AddAllFirstOnly(reg, new) == SetAddAll(reg, <<Head(new)>>)
AddAll(reg, new) == SetAddAll(reg, new)

\* const allProcessedClasses = Array.from(processedClasses)
BuildInputNewOnly(reg, new) == new
BuildInput(reg, new) == reg

\* compiler.build throws: line 144 is not reached
SheetAfterThrowCleared(sh) == [sh EXCEPT !.text = NewSheet.text]
SheetAfterThrow(sh) == sh

\* compiler.build(allProcessedClasses): the css text of an engine for a class list
CompiledCss(engine, classes) == [engine |-> engine, classes |-> classes]

\* buildQueue = buildQueue.then(...).catch(...): the promise buildQueue holds afterwards
NextQueueKept(bq, new) == bq
NextQueue(bq, new) == new

\* .then(() => processClasses(classNames)): the promise follows the one the callback returns
ThenReadyEarly(pc) == pc # "queued"
ThenReady(pc) == pc \in Outcomes

ThenSettles(pc) == IF pc \in {"failedInit", "failedBuild", "failedWrite"} THEN "rejected" ELSE "fulfilled"

\* .catch((err) => I.error(err)): a rejection is handled and the promise fulfils
CatchSettlesRethrow(st) == st
CatchSettles(st) == "fulfilled"

PromiseState(k) == IF k = 0 THEN InitialPromise ELSE tasks[k].promise

(* ---------------------------------------------------------------------- *)
(* Actions                                                                 *)
(* ---------------------------------------------------------------------- *)

\* tw(...inputs), with queueClassProcessing(allClassesToProcess)
Tw(inputs) ==
  /\ Len(tasks) < MaxCalls
  /\ LET id == Len(tasks) + 1 IN
       /\ tasks' = Append(tasks,
            [inputs |-> inputs,
             classNames |-> allClassesToProcess(inputs),
             result |-> Join(resultClasses(inputs)),
             pred |-> buildQueue,
             predDone |-> (tasks = << >> \/ tasks[Len(tasks)].pc \in Outcomes),
             pc |-> "queued",
             startCompiler |-> Undefined,
             textAtStart |-> NoSheet.text,
             autoInit |-> "none",
             promise |-> "pending",
             reported |-> FALSE,
             ran |-> FALSE,
             seen |-> << >>,
             added |-> << >>,
             built |-> FALSE])
       /\ buildQueue' = NextQueue(buildQueue, id)
  /\ UNCHANGED <<compiler, processedClasses, sheet, inits, builds, sheetsCreated, loads>>

\* processClasses from line 128 to its end: no await, one step
RunBody(i) ==
  LET newClasses == NewClasses(tasks[i].classNames, processedClasses)
      ran == [tasks[i] EXCEPT !.ran = TRUE, !.seen = processedClasses, !.added = newClasses,
                              !.startCompiler = IF tasks[i].pc = "queued" THEN compiler ELSE @,
                              !.textAtStart = IF tasks[i].pc = "queued" THEN sheet.text ELSE @]
  IN IF Len(newClasses) = 0
     THEN /\ tasks' = [tasks EXCEPT ![i] = [ran EXCEPT !.pc = "skipped"]]
          /\ UNCHANGED <<processedClasses, sheet, builds>>
     ELSE LET reg == AddAll(processedClasses, newClasses)
              input == BuildInput(reg, newClasses)
          IN /\ processedClasses' = reg
             /\ builds' = Append(builds, [task |-> i, engine |-> compiler, input |-> input])
             /\ \E throws \in BOOLEAN :
                  IF throws \/ compiler = Undefined
                  THEN /\ tasks' = [tasks EXCEPT ![i] =
                                      [ran EXCEPT !.pc = "failedBuild", !.built = TRUE]]
                       /\ sheet' = SheetAfterThrow(sheet)
                  ELSE IF ~sheet.exists
                  THEN /\ tasks' = [tasks EXCEPT ![i] =
                                      [ran EXCEPT !.pc = "failedWrite", !.built = TRUE]]
                       /\ sheet' = sheet
                  ELSE /\ tasks' = [tasks EXCEPT ![i] =
                                      [ran EXCEPT !.pc = "ok", !.built = TRUE]]
                       /\ sheet' = [sheet EXCEPT !.text = CompiledCss(compiler, input)]

\* the .then callback of task i runs: processClasses up to its first await, or to its end
TaskStart(i) ==
  /\ tasks[i].pc = "queued"
  /\ PromiseState(tasks[i].pred) = "fulfilled"
  /\ IF NeedsInit(compiler)
     THEN /\ tasks' = [tasks EXCEPT ![i].pc = "compile", ![i].autoInit = "pending",
                                    ![i].startCompiler = compiler,
                                    ![i].textAtStart = sheet.text]
          /\ UNCHANGED <<processedClasses, sheet, builds>>
     ELSE RunBody(i)
  /\ UNCHANGED <<compiler, buildQueue, inits, sheetsCreated, loads>>

\* the task's initializeCompiler(): tailwindcss.compile resolved
CompileResolve(i) ==
  /\ tasks[i].pc = "compile"
  /\ compiler' = Css(Undefined)
  /\ sheet' = EnsureSheet(sheet)
  /\ sheetsCreated' = IF sheet' = sheet THEN sheetsCreated ELSE sheetsCreated + 1
  /\ tasks' = [tasks EXCEPT ![i].pc = "resume", ![i].autoInit = "ok"]
  /\ UNCHANGED <<processedClasses, buildQueue, inits, builds, loads>>

\* the task's initializeCompiler(): tailwindcss.compile rejected
CompileReject(i) ==
  /\ tasks[i].pc = "compile"
  /\ tasks' = [tasks EXCEPT ![i].pc = "failedInit", ![i].autoInit = "failed"]
  /\ compiler' = CompilerAfterReject(compiler)
  /\ UNCHANGED <<processedClasses, sheet, buildQueue, inits, builds, sheetsCreated, loads>>

\* processClasses continues after await initializeCompiler()
TaskResume(i) ==
  /\ tasks[i].pc = "resume"
  /\ RunBody(i)
  /\ UNCHANGED <<compiler, buildQueue, inits, sheetsCreated, loads>>

\* the promise of task i settles: .then follows processClasses, .catch reports
Settle(i) ==
  /\ tasks[i].promise = "pending"
  /\ ThenReady(tasks[i].pc)
  /\ LET st == ThenSettles(tasks[i].pc) IN
       tasks' = [tasks EXCEPT ![i].promise = CatchSettles(st),
                              ![i].reported = (st = "rejected")]
  /\ UNCHANGED <<compiler, processedClasses, sheet, buildQueue, inits, builds, sheetsCreated, loads>>

\* initializeCompiler(customCss) called by the page, up to await tailwindcss.compile
InitCall(customCss) ==
  /\ Len(inits) < MaxInits
  /\ inits' = Append(inits, [css |-> Css(customCss), state |-> "pending",
                            customFirst |-> (customCss # Undefined /\ tasks = << >>),
                            handleBefore |-> Undefined])
  /\ UNCHANGED <<compiler, processedClasses, sheet, buildQueue, tasks, builds, sheetsCreated, loads>>

InitResolve(k) ==
  /\ inits[k].state = "pending"
  /\ compiler' = inits[k].css
  /\ sheet' = EnsureSheet(sheet)
  /\ sheetsCreated' = IF sheet' = sheet THEN sheetsCreated ELSE sheetsCreated + 1
  /\ inits' = [inits EXCEPT ![k].state = "ok"]
  /\ UNCHANGED <<processedClasses, buildQueue, tasks, builds, loads>>

InitReject(k) ==
  /\ inits[k].state = "pending"
  /\ inits' = [inits EXCEPT ![k].state = "failed", ![k].handleBefore = compiler]
  /\ compiler' = CompilerAfterReject(compiler)
  /\ UNCHANGED <<processedClasses, sheet, buildQueue, tasks, builds, sheetsCreated, loads>>

TaskStep(i) == TaskStart(i) \/ CompileResolve(i) \/ CompileReject(i) \/ TaskResume(i)

Next ==
  \/ \E inputs \in InputLists : Tw(inputs)
  \/ \E i \in 1..Len(tasks) : TaskStart(i)
  \/ \E i \in 1..Len(tasks) : CompileResolve(i)
  \/ \E i \in 1..Len(tasks) : CompileReject(i)
  \/ \E i \in 1..Len(tasks) : TaskResume(i)
  \/ \E i \in 1..Len(tasks) : Settle(i)
  \/ \E customCss \in CssArgs : InitCall(customCss)
  \/ \E k \in 1..Len(inits) : InitResolve(k)
  \/ \E k \in 1..Len(inits) : InitReject(k)

Spec == Init /\ [][Next]_vars

\* The same program with the calls drawn from the inputs that make a later
\* task carry a superset of an earlier one's candidates.
LiveInputLists ==
  { << Str(<<"a", " ", "b">>) >>,
    << Str(<<"a", " ", "b">>), Obj(<< Entry(<<"c">>, TRUE), Entry(<<"d">>, FALSE) >>) >> }

NextLive ==
  \/ \E inputs \in LiveInputLists : Tw(inputs)
  \/ \E i \in 1..Len(tasks) : TaskStart(i)
  \/ \E i \in 1..Len(tasks) : CompileResolve(i)
  \/ \E i \in 1..Len(tasks) : CompileReject(i)
  \/ \E i \in 1..Len(tasks) : TaskResume(i)
  \/ \E i \in 1..Len(tasks) : Settle(i)
  \/ \E customCss \in CssArgs : InitCall(customCss)
  \/ \E k \in 1..Len(inits) : InitResolve(k)
  \/ \E k \in 1..Len(inits) : InitReject(k)

\* loadStylesheet's inner load(): the fixed table, or a throw naming the id
Loaded(path, base, content) ==
  [threw |-> FALSE, path |-> path, base |-> base, content |-> content,
   message |-> "", id |-> ""]
Threw(message, id) ==
  [threw |-> TRUE, path |-> "", base |-> "", content |-> "",
   message |-> message, id |-> id]

loadFallsBackToIndex(id, base) ==
  IF id \in {"tailwindcss/preflight", "tailwindcss/preflight.css", "./preflight.css"}
  THEN Loaded("virtual:tailwindcss/preflight.css", base, "assets.css.preflight")
  ELSE IF id \in {"tailwindcss/theme", "tailwindcss/theme.css", "./theme.css"}
  THEN Loaded("virtual:tailwindcss/theme.css", base, "assets.css.theme")
  ELSE IF id \in {"tailwindcss/utilities", "tailwindcss/utilities.css", "./utilities.css"}
  THEN Loaded("virtual:tailwindcss/utilities.css", base, "assets.css.utilities")
  ELSE Loaded("virtual:tailwindcss/index.css", base, "assets.css.index")

load(id, base) ==
  IF id = "tailwindcss"
  THEN Loaded("virtual:tailwindcss/index.css", base, "assets.css.index")
  ELSE IF id = "tailwindcss/preflight" \/ id = "tailwindcss/preflight.css"
          \/ id = "./preflight.css"
  THEN Loaded("virtual:tailwindcss/preflight.css", base, "assets.css.preflight")
  ELSE IF id = "tailwindcss/theme" \/ id = "tailwindcss/theme.css" \/ id = "./theme.css"
  THEN Loaded("virtual:tailwindcss/theme.css", base, "assets.css.theme")
  ELSE IF id = "tailwindcss/utilities" \/ id = "tailwindcss/utilities.css"
          \/ id = "./utilities.css"
  THEN Loaded("virtual:tailwindcss/utilities.css", base, "assets.css.utilities")
  ELSE Threw("The browser build does not support @import for", id)

\* try { return load() } catch (err) { I.hit(...); throw err }
loadStylesheet(id, base) == load(id, base)

\* async function loadModule(): always throws
loadModule == Threw("The browser build does not support plugins or config files.", "")

MaxLoads == 2

KnownIds ==
  { "tailwindcss",
    "tailwindcss/preflight", "tailwindcss/preflight.css", "./preflight.css",
    "tailwindcss/theme", "tailwindcss/theme.css", "./theme.css",
    "tailwindcss/utilities", "tailwindcss/utilities.css", "./utilities.css" }

OtherIds ==
  { "", "tailwindcss/index.css", "./index.css", "TAILWINDCSS", "preflight",
    "tailwindcss/preflight.js", "./theme", "./my-plugin.js" }

Bases == {"/", "/src"}

\* the engine asks for a stylesheet
LoadStylesheetCall(id, base) ==
  /\ Len(loads) < MaxLoads
  /\ loads' = Append(loads, [op |-> "loadStylesheet", id |-> id, base |-> base,
                             out |-> loadStylesheet(id, base)])
  /\ UNCHANGED <<compiler, processedClasses, sheet, buildQueue, tasks, inits, builds,
                 sheetsCreated>>

\* the engine asks for a plugin or a config file
LoadModuleCall(id, base) ==
  /\ Len(loads) < MaxLoads
  /\ loads' = Append(loads, [op |-> "loadModule", id |-> id, base |-> base,
                             out |-> loadModule])
  /\ UNCHANGED <<compiler, processedClasses, sheet, buildQueue, tasks, inits, builds,
                 sheetsCreated>>

ResolverNext ==
  \/ \E id \in KnownIds \cup OtherIds : \E base \in Bases : LoadStylesheetCall(id, base)
  \/ \E id \in OtherIds : \E base \in Bases : LoadModuleCall(id, base)

ResolverSpec == Init /\ [][ResolverNext]_vars

\* tw() alone, on a wider set of argument lists: every list of at most
\* MaxArgs of the arguments below, and the two lists of the documentation.
MaxArgs == 2

TwArgs ==
  { Falsy,
    Str(<<"a", " ", "b">>),
    Str(<<" ", "a", "\t", " ", "c", " ">>),
    Obj(<< Entry(<<"c">>, TRUE), Entry(<<"d">>, FALSE) >>) }

TwInputLists ==
  UNION {[1..n -> TwArgs] : n \in 0..MaxArgs}
  \cup { << Falsy, Falsy, Falsy, Str(<<"x">>) >>,
         << Str(<<" ">>),
            Obj(<< Entry(<<"a", " ", "d">>, FALSE), Entry(<<" ", "b", " ">>, TRUE) >>) >> }

TwNext == \E inputs \in TwInputLists : Tw(inputs)

TwSpec == Init /\ [][TwNext]_vars

\* The event loop runs every promise reaction that is ready, and every
\* tailwindcss.compile call a task awaits settles.
QueueStep == \E i \in 1..Len(tasks) : TaskStep(i) \/ Settle(i)

LiveSpec == Init /\ [][NextLive]_vars /\ WF_vars(QueueStep)

(* ---------------------------------------------------------------------- *)
(* Properties                                                              *)
(* ---------------------------------------------------------------------- *)
Failed == {"failedInit", "failedBuild", "failedWrite"}
TaskIds == 1..Len(tasks)

\* some task moves in this step (its .then callback or one of its continuations runs)
TaskMoves == \E i \in TaskIds : tasks'[i].pc # tasks[i].pc

A == <<"a">>
B == <<"b">>
C == <<"c">>

\* C1: at most one task is executing at any instant; task n+1 has begun only
\* if task n has reached its outcome, and the registry task n+1 filters
\* against contains everything task n added.
C1_Serialized ==
  /\ Cardinality({i \in TaskIds : tasks[i].pc \in Executing}) <= 1
  /\ \A n \in TaskIds : n + 1 \in TaskIds /\ tasks[n + 1].pc # "queued" =>
       tasks[n].pc \in Outcomes
  /\ \A n \in TaskIds : n + 1 \in TaskIds /\ tasks[n + 1].ran =>
       Range(tasks[n].seen) \cup Range(tasks[n].added) \subseteq Range(tasks[n + 1].seen)

\* two calls made while the first task had not finished, both tasks added names
C1_Witness ==
  \E n \in TaskIds : /\ n + 1 \in TaskIds
                     /\ ~tasks[n + 1].predDone
                     /\ tasks[n].added # << >>
                     /\ tasks[n + 1].added # << >>
                     /\ tasks[n + 1].pc = "ok"

\* C2: tasks run in the order of their calls: whenever a task has started,
\* every task enqueued before it has reached its outcome (success, skip or
\* failure) and its queue promise has settled.
C2_Fifo ==
  \A i \in TaskIds : \A j \in TaskIds :
    i < j /\ tasks[j].pc # "queued" =>
      tasks[i].pc \in Outcomes /\ tasks[i].promise # "pending"

\* two calls made before the first task finished; the first task failed and
\* the second then ran
C2_Witness ==
  \E i \in TaskIds : \E j \in TaskIds :
    /\ j = i + 1
    /\ ~tasks[j].predDone
    /\ tasks[i].pc \in Failed
    /\ tasks[j].pc \in {"ok", "skipped"}

\* C3 (under LiveSpec): again and again the queue is in a state where every
\* failed task has been reported, its queue promise is fulfilled, and every
\* task enqueued after it has run to its outcome.
C3_NotWedged ==
  []<>(\A i \in TaskIds : tasks[i].pc \in Failed =>
         /\ tasks[i].reported
         /\ tasks[i].promise = "fulfilled"
         /\ \A j \in TaskIds : j > i => tasks[j].pc \in Outcomes)

\* a call made after a task had failed returned its string and its task compiled
C3_Witness ==
  \E i \in TaskIds : \E j \in TaskIds :
    /\ j = i + 1
    /\ tasks[i].pc \in Failed
    /\ tasks[i].reported
    /\ tasks[j].predDone
    /\ tasks[j].result = <<"a", " ", "b">>
    /\ tasks[j].pc = "ok"

\* C4 (under LiveSpec): again and again every enqueued task has reached an
\* outcome; outcomes are final, so every enqueued task eventually runs to one.
C4_EveryTaskRuns == []<>(\A i \in TaskIds : tasks[i].pc \in Outcomes)

\* a task ran to its outcome although a later call, made before it started,
\* carried a superset of its candidates
C4_Witness ==
  \E i \in TaskIds : \E j \in TaskIds :
    /\ j = i + 1
    /\ ~tasks[j].predDone
    /\ Range(tasks[i].classNames) \subseteq Range(tasks[j].classNames)
    /\ Range(tasks[i].classNames) # Range(tasks[j].classNames)
    /\ tasks[i].pc = "ok"
    /\ tasks[j].pc = "ok"

\* C5: every compiler.build call receives the whole registry as it is at the
\* call, which includes everything that was in the registry before the task.
C5_FullSet ==
  [][Len(builds') > Len(builds) =>
       /\ builds'[Len(builds')].input = processedClasses'
       /\ Range(processedClasses) \subseteq Range(builds'[Len(builds')].input)]_vars

\* after registry = {a,b} was built, a task adding c called build with {a,b,c}
C5_Witness ==
  /\ Len(builds) >= 2
  /\ builds[1].input = <<A, B>>
  /\ builds[2].input = <<A, B, C>>

\* C6 as stated: a task step of a task whose candidates are all in the
\* registry calls no build and leaves the style element as it was.
C6_SkipLeavesSinkUntouched ==
  [][\A i \in TaskIds :
       tasks'[i].pc # tasks[i].pc
       /\ Range(tasks[i].classNames) \subseteq Range(processedClasses)
       => builds' = builds /\ sheet' = sheet]_vars

\* C6 amended: such a task calls no build, adds nothing to the registry and
\* never writes the style element's text; the only change it can make to the
\* style element is to create it, when its own auto-initialization completes.
C6_SkipNoBuildNoWrite ==
  [][\A i \in TaskIds :
       tasks'[i].pc # tasks[i].pc
       /\ Range(tasks[i].classNames) \subseteq Range(processedClasses)
       => /\ builds' = builds
          /\ processedClasses' = processedClasses
          /\ sheet'.text = sheet.text
          /\ sheet' # sheet =>
               tasks[i].pc = "compile" /\ ~sheet.exists /\ sheet' = NewSheet]_vars

\* a task with candidates, all of them registered, was skipped while the
\* style element held compiled text
C6_Witness ==
  \E i \in TaskIds : /\ tasks[i].pc = "skipped"
                     /\ tasks[i].classNames # << >>
                     /\ builds # << >>
                     /\ sheet.text.classes # << >>

\* C7 as stated, for calls that carry class names: of two finished tasks of
\* calls with identical inputs exactly one added names to the registry, and
\* the second called no build.
C7_ExactlyOneGrowth ==
  \A i \in TaskIds : \A j \in TaskIds :
    i < j /\ tasks[i].inputs = tasks[j].inputs /\ tasks[i].classNames # << >>
    /\ tasks[i].pc \in Outcomes /\ tasks[j].pc \in Outcomes
    => /\ (tasks[i].added # << >>) # (tasks[j].added # << >>)
       /\ ~tasks[j].built

\* C7 amended: of two tasks of calls with identical inputs at most one adds
\* names to the registry; if the first got past initialization, it added the
\* names that were missing and the second adds nothing and calls no build.
C7_Dedup ==
  \A i \in TaskIds : \A j \in TaskIds :
    i < j /\ tasks[i].inputs = tasks[j].inputs
    => /\ ~(tasks[i].added # << >> /\ tasks[j].added # << >>)
       /\ tasks[i].ran =>
            /\ tasks[j].added = << >>
            /\ ~tasks[j].built
            /\ (tasks[i].added = << >>) =
                 (Range(tasks[i].classNames) \subseteq Range(tasks[i].seen))

\* the first call's task compiled, the identical second call's task was skipped
C7_Witness ==
  \E i \in TaskIds : \E j \in TaskIds :
    /\ i < j
    /\ tasks[i].inputs = tasks[j].inputs
    /\ tasks[i].pc = "ok"
    /\ tasks[j].pc = "skipped"

\* C8: no step removes a name from the registry.
C8_Monotonic == [][Range(processedClasses) \subseteq Range(processedClasses')]_vars

\* the registry grew twice
C8_Witness ==
  \E i \in TaskIds : tasks[i].seen # << >> /\ tasks[i].added # << >>

\* C9 as stated: the registry and the style element change only in a step of
\* a task.
C9_OnlyInsideTask ==
  [][sheet' # sheet \/ processedClasses' # processedClasses => TaskMoves]_vars

\* C9 amended: the registry and the style element's text change only in a
\* step of a task; tw() changes neither the registry nor the style element;
\* outside a task the only change is the creation of the missing style
\* element by an explicit initializeCompiler call that completes successfully.
C9_TaskOrInitOnly ==
  [][/\ processedClasses' # processedClasses => TaskMoves
     /\ sheet'.text # sheet.text => TaskMoves
     /\ Len(tasks') > Len(tasks) => sheet' = sheet /\ processedClasses' = processedClasses
     /\ sheet' # sheet /\ ~TaskMoves =>
          /\ ~sheet.exists
          /\ sheet' = NewSheet
          /\ \E k \in 1..Len(inits) : inits[k].state = "pending" /\ inits'[k].state = "ok"]_vars

\* an explicit initializeCompiler completed after a task had written the style element
C9_Witness ==
  /\ sheet.text.classes # << >>
  /\ processedClasses # << >>
  /\ \E k \in 1..Len(inits) : inits[k].state = "ok"
  /\ compiler # sheet.text.engine

\* C10: every build call is made on an installed engine, an engine is
\* installed only by a compile that succeeded, and a task that started
\* without an engine built only after its own initializeCompiler() succeeded.
C10_BuildAfterInit ==
  /\ \A k \in 1..Len(builds) : builds[k].engine # Undefined
  /\ compiler # Undefined =>
       \/ \E i \in TaskIds : tasks[i].autoInit = "ok" /\ compiler = DefaultCss
       \/ \E k \in 1..Len(inits) : inits[k].state = "ok" /\ compiler = inits[k].css
  /\ \A i \in TaskIds : tasks[i].built =>
       IF tasks[i].startCompiler = Undefined
       THEN tasks[i].autoInit = "ok"
       ELSE tasks[i].autoInit = "none"
  /\ \A i \in TaskIds : tasks[i].autoInit = "failed" => ~tasks[i].ran /\ ~tasks[i].built

\* a task started without an engine, initialized it and built; an earlier
\* task's initialization had failed
C10_Witness ==
  \E i \in TaskIds : \E j \in TaskIds :
    /\ tasks[i].autoInit = "failed"
    /\ tasks[j].autoInit = "ok"
    /\ tasks[j].built
    /\ tasks[j].pc = "ok"

\* C11: the style element is created at most once (sheetsCreated counts the
\* creations), it exists exactly when it was created, and it exists only if
\* some initialization succeeded.
C11_SinkOnce ==
  /\ sheetsCreated <= 1
  /\ sheet.exists = (sheetsCreated = 1)
  /\ sheet.exists =>
       \/ \E i \in TaskIds : tasks[i].autoInit = "ok"
       \/ \E k \in 1..Len(inits) : inits[k].state = "ok"

\* a task's own initialization and an explicit initializeCompiler call both
\* succeeded, and the one style element holds compiled text
C11_Witness ==
  /\ \E i \in TaskIds : tasks[i].autoInit = "ok"
  /\ \E k \in 1..Len(inits) : inits[k].state = "ok"
  /\ sheet.text.classes # << >>
  /\ sheetsCreated = 1

\* an initialization fails in this step
InitFails ==
  \/ \E k \in 1..Len(inits) : inits[k].state = "pending" /\ inits'[k].state = "failed"
  \/ \E i \in TaskIds : tasks[i].autoInit = "pending" /\ tasks'[i].autoInit = "failed"

\* an initialization succeeds in this step
InitSucceeds ==
  \/ \E k \in 1..Len(inits) : inits[k].state = "pending" /\ inits'[k].state = "ok"
  \/ \E i \in TaskIds : tasks[i].autoInit = "pending" /\ tasks'[i].autoInit = "ok"

TokenStarts(s) == {i \in 1..Len(s) : ~IsSpace(s[i]) /\ (i = 1 \/ IsSpace(s[i - 1]))}
TokenEnd(s, i) == CHOOSE j \in i..Len(s) :
                    /\ \A k \in i..j : ~IsSpace(s[k])
                    /\ j = Len(s) \/ IsSpace(s[j + 1])
TokensOf(s) ==
  LET starts == TokenStarts(s) IN
    [n \in 1..Cardinality(starts) |->
       LET i == CHOOSE x \in starts : Cardinality({y \in starts : y < x}) = n - 1
       IN SubSeq(s, i, TokenEnd(s, i))]

RECURSIVE Flatten(_)
Flatten(ss) == IF ss = << >> THEN << >> ELSE Head(ss) \o Flatten(Tail(ss))

\* what one argument contributes to the candidates, and to the active output
CandidatesOf(x) ==
  IF x.kind = "string" THEN TokensOf(x.str)
  ELSE IF x.kind = "object"
       THEN Flatten([n \in 1..Len(x.entries) |-> TokensOf(x.entries[n].key)])
       ELSE << >>
ActiveOf(x) ==
  IF x.kind = "string" THEN TokensOf(x.str)
  ELSE IF x.kind = "object"
       THEN Flatten([n \in 1..Len(x.entries) |->
                       IF x.entries[n].cond THEN TokensOf(x.entries[n].key) ELSE << >>])
       ELSE << >>

RECURSIVE SumLen(_)
SumLen(toks) == IF toks = << >> THEN 0 ELSE Len(Head(toks)) + SumLen(Tail(toks))

\* C13 (under TwSpec): for the latest call (every call is the latest one in
\* the state that follows it, and its record is never changed), the returned string and the task's
\* candidates are what the arguments alone determine: the string is the
\* active tokens in encounter order with duplicates, separated by exactly one
\* space each, and the task carries every candidate; tw("a b", {c: true,
\* d: false}) returns "a b c" and schedules a, b, c, d; tw(null, false,
\* undefined, "x") returns "x".
C13_TwResult ==
  \A i \in {Len(tasks)} \ {0} :
    LET t == tasks[i]
        active == Flatten([n \in 1..Len(t.inputs) |-> ActiveOf(t.inputs[n])])
        all == Flatten([n \in 1..Len(t.inputs) |-> CandidatesOf(t.inputs[n])])
    IN /\ t.classNames = all
       /\ TokensOf(t.result) = active
       /\ Len(t.result) = SumLen(active) + (IF active = << >> THEN 0 ELSE Len(active) - 1)
       /\ \A k \in 1..Len(t.result) : t.result[k] # "\t"
       /\ t.inputs = << Str(<<"a", " ", "b">>),
                        Obj(<< Entry(<<"c">>, TRUE), Entry(<<"d">>, FALSE) >>) >>
          => t.result = <<"a", " ", "b", " ", "c">>
             /\ t.classNames = << <<"a">>, <<"b">>, <<"c">>, <<"d">> >>
       /\ t.inputs = << Falsy, Falsy, Falsy, Str(<<"x">>) >>
          => t.result = <<"x">> /\ t.classNames = << <<"x">> >>

\* the documented call was made after a call whose string keeps a duplicate
\* and drops an inactive key
C13_Witness ==
  /\ Len(tasks) = 2
  /\ tasks[1].result = <<"a", " ", "c", " ", "c">>
  /\ tasks[1].classNames = << <<"a">>, <<"c">>, <<"c">>, <<"d">> >>
  /\ tasks[2].result = <<"a", " ", "b", " ", "c">>

\* the table of the resolver: identifier -> virtual path and asset
ResourceTable ==
  { <<"tailwindcss", "virtual:tailwindcss/index.css", "assets.css.index">>,
    <<"tailwindcss/preflight", "virtual:tailwindcss/preflight.css", "assets.css.preflight">>,
    <<"tailwindcss/preflight.css", "virtual:tailwindcss/preflight.css", "assets.css.preflight">>,
    <<"./preflight.css", "virtual:tailwindcss/preflight.css", "assets.css.preflight">>,
    <<"tailwindcss/theme", "virtual:tailwindcss/theme.css", "assets.css.theme">>,
    <<"tailwindcss/theme.css", "virtual:tailwindcss/theme.css", "assets.css.theme">>,
    <<"./theme.css", "virtual:tailwindcss/theme.css", "assets.css.theme">>,
    <<"tailwindcss/utilities", "virtual:tailwindcss/utilities.css", "assets.css.utilities">>,
    <<"tailwindcss/utilities.css", "virtual:tailwindcss/utilities.css", "assets.css.utilities">>,
    <<"./utilities.css", "virtual:tailwindcss/utilities.css", "assets.css.utilities">> }

\* C14 (under ResolverSpec): a loadStylesheet call for an identifier of the
\* table returns the table's path and asset with the caller's base; for any
\* other identifier it throws an error naming that identifier; a loadModule
\* call always throws.
C14_FailsClosed ==
  \A n \in 1..Len(loads) :
    LET l == loads[n]
        rows == {r \in ResourceTable : r[1] = l.id}
    IN IF l.op = "loadModule" THEN l.out.threw
       ELSE IF rows = {} THEN l.out.threw /\ l.out.id = l.id
       ELSE /\ ~l.out.threw
            /\ \A r \in rows : l.out.path = r[2] /\ l.out.content = r[3]
            /\ l.out.base = l.base

\* a path alias resolved with the caller's base, and an unknown identifier was refused
C14_Witness ==
  /\ Len(loads) = 2
  /\ loads[1].id = "./theme.css" /\ loads[1].base = "/src"
  /\ loads[1].out.path = "virtual:tailwindcss/theme.css" /\ loads[1].out.base = "/src"
  /\ loads[2].id = "./index.css" /\ loads[2].out.threw

\* C15: while a failed task is the last task that ran, the style element's
\* text is the text it had when that task started, whether the task failed in
\* its initialization or in build.
C15_FailedTaskKeepsText ==
  \A i \in TaskIds :
    tasks[i].pc \in Failed /\ (\A j \in TaskIds : j > i => tasks[j].pc = "queued")
    => sheet.text = tasks[i].textAtStart

\* a build failed after an earlier task had written the style element
C15_Witness ==
  \E i \in TaskIds :
    /\ tasks[i].pc = "failedBuild"
    /\ tasks[i].textAtStart.classes # << >>
    /\ sheet.text = tasks[i].textAtStart

\* C16: a task that has started called initializeCompiler() exactly if no
\* engine was installed when it started; the engine its initialization asks
\* for is the default one; and a task that starts after a task whose
\* initialization failed, with still no engine installed, initializes again.
C16_AutoInitIffNoHandle ==
  /\ \A i \in TaskIds : tasks[i].pc # "queued" =>
       (tasks[i].autoInit # "none") = (tasks[i].startCompiler = Undefined)
  /\ \A i \in TaskIds : tasks[i].pc = "queued" => tasks[i].autoInit = "none"
  /\ \A i \in TaskIds : tasks[i].pc = "resume" /\ inits = << >> => compiler = DefaultCss
  /\ \A i \in TaskIds : \A j \in TaskIds :
       i < j /\ tasks[i].autoInit = "failed" /\ tasks[j].pc # "queued"
       /\ tasks[j].startCompiler = Undefined
       => tasks[j].autoInit # "none" /\ (tasks[j].ran => tasks[j].autoInit = "ok")

\* the first task's initialization failed and the second task initialized
\* again, while an explicit call had not installed an engine
C16_Witness ==
  /\ Len(tasks) = 2
  /\ tasks[1].autoInit = "failed"
  /\ tasks[2].startCompiler = Undefined
  /\ tasks[2].autoInit = "ok"
  /\ tasks[2].ran
  /\ \A k \in 1..Len(inits) : inits[k].state # "ok"

\* C17: whenever every enqueued task has finished and its queue promise has
\* settled, a non-empty registry is exactly the class list of the build that
\* produced the style element's text.
C17_IdleSinkReflectsRegistry ==
  (\A i \in TaskIds : tasks[i].pc \in Outcomes /\ tasks[i].promise # "pending")
  /\ processedClasses # << >>
  => sheet.exists /\ sheet.text.classes = processedClasses

\* C18: when the only explicit call, initializeCompiler(customCss), was made
\* before the first tw() call and succeeded, every build call was made on the
\* engine created from customCss.
C18_ExplicitEngineUsed ==
  \A k \in 1..Len(inits) :
    Len(inits) = 1 /\ inits[k].customFirst /\ inits[k].css = CustomCss /\ inits[k].state = "ok"
    => \A b \in 1..Len(builds) : builds[b].engine = CustomCss

\* C19: whenever an engine is installed the style element exists, and no
\* task has ended in a write to a missing style element.
C19_HandleImpliesSheet ==
  /\ compiler # Undefined => sheet.exists
  /\ \A i \in TaskIds : tasks[i].pc # "failedWrite"

\* a task wrote the style element on an engine installed by an explicit call,
\* after its own initialization had failed
C19_Witness ==
  \E i \in TaskIds : \E j \in TaskIds : \E k \in 1..Len(inits) :
    /\ tasks[i].autoInit = "failed"
    /\ inits[k].state = "ok"
    /\ tasks[j].pc = "ok"
    /\ tasks[j].autoInit = "none"
    /\ sheet.text.classes # << >>

\* C20: the registry holds exactly the candidates of the tasks that got past
\* initialization: a task that failed in initialization added nothing, and a
\* task that got past it has all its candidates in the registry.
C20_RegistryIsUnionOfRun ==
  /\ Range(processedClasses) =
       UNION {Range(tasks[i].classNames) : i \in {j \in TaskIds : tasks[j].ran}}
  /\ \A i \in TaskIds : tasks[i].pc = "failedInit" => ~tasks[i].ran /\ tasks[i].added = << >>
  /\ \A i \in TaskIds : tasks[i].pc \in Outcomes \ {"failedInit"} => tasks[i].ran

\* a task with candidates failed in initialization and a later task added
\* other names: the first task's candidates are not in the registry
C20_Witness ==
  \E i \in TaskIds : \E j \in TaskIds :
    /\ tasks[i].pc = "failedInit"
    /\ tasks[i].classNames # << >>
    /\ tasks[j].pc = "ok"
    /\ ~(Range(tasks[i].classNames) \subseteq Range(processedClasses))

====
